---- MODULE Spec2Model ----
(***************************************************************************)
(* Lesson programs of python_crawler as one state machine.                 *)
(*                                                                         *)
(* The repository holds independent programs.  A behaviour of this module   *)
(* is a run of ONE of them, chosen by `app` in Init:                        *)
(*   "fx"    lesson8/main.py    ExchangeRateApp   (tkinter, after-callback) *)
(*   "stock" lesson8_1/main.py  StockMonitorApp   (tkinter, queue + poll)   *)
(*   "web"   lesson7_1/main.py  the streamlit dashboard script              *)
(*   "game"  lesson3/lesson3_4.py  the console guessing game                *)
(* The variables of the programs that are not running keep their initial    *)
(* values.                                                                  *)
(*                                                                         *)
(* Threads.  Every handler that tkinter runs on the UI thread is one        *)
(* action (the main loop runs callbacks to completion, modal dialogs        *)
(* included).  A worker thread is split at every point where the UI thread  *)
(* can observe or disturb it.                                               *)
(*                                                                         *)
(* The Fetcher (crawl4ai behind fetch_exchange_rates / fetch_multiple_      *)
(* stocks) is the environment: its outcome is drawn from the outcomes the   *)
(* runner's code distinguishes (a list, an empty list, None, an exception). *)
(***************************************************************************)
EXTENDS Integers, Sequences, FiniteSets, TLC

(***************************************************************************)
(* Bounds of the model.                                                     *)
(***************************************************************************)
\* worker threads one run of a desktop app may launch
MaxFetches == 2
\* auto-update timers that may be pending at once
MaxTimers == 2
\* longest list of scraped rows a fetch of the dashboard returns
MaxRows == 2
\* the dashboard's clock stops here (minutes)
MaxNow == 15
\* minutes that pass between two observations of the dashboard's clock
TickMinutes == 5
\* longest record list a fetch of the exchange-rate app returns
MaxLen == 2
\* the guessing game draws its target from 1..MaxNumber
MaxNumber == 4
\* guesses the player may enter in one game
MaxGuesses == 3
\* games one run of the console program may play
MaxGames == 2

(***************************************************************************)
(* Optional values (Python None / a value).                                 *)
(***************************************************************************)
None == [tag |-> "None"]
Some(x) == [tag |-> "Some", v |-> x]

VARIABLES
  app,            \* which program this behaviour runs
  now,            \* datetime.now(): a logical clock
  thread,         \* history: the thread that took the last step
  request,        \* history: what became of the last refresh request
  trigger,        \* history: what issued the last refresh request of a desktop app
  \* ---- ExchangeRateApp (lesson8/main.py) ----
  fxStarted,      \* __init__ has reached _load_initial_data
  is_loading,     \* self.is_loading
  exchange_data,  \* self.exchange_data : None or Some(list of records)
  last_update,    \* self.last_update   : None or Some(time)
  fxBtn,          \* self.update_btn state: "normal" / "disabled"
  fxStatus,       \* self.status_label text
  time_label,     \* self.time_label text: None ("-") or Some(time)
  tree,           \* rows of self.tree (Treeview), top to bottom
  combo,          \* self.currency_combo['values']
  comboSel,       \* self.currency_combo.get(): the selected currency
  fxDialog,       \* the last messagebox shown
  fxErrCount,     \* number of showerror dialogs shown for fetch outcomes so far
  fxW,            \* worker threads: [1..MaxFetches -> [pc, res, applied]]:
                  \* res is what the fetch yielded (kept while the thread or
                  \* its callback needs it), applied counts its callbacks run
  fxLaunched,     \* number of worker threads started
  afterQ,         \* Tk's queue of after(0, ...) callbacks, FIFO
  clearTimers,    \* pending after(3000, clear status) timers
  fxApplied,      \* history: what the last run callback handed to the UI thread
                  \* (again: the callback before it handed over the same success)
  \* ---- StockMonitorApp (lesson8_1/main.py) ----
  watchlist,          \* self.watchlist : set of stock codes
  stock_data_cache,   \* self.stock_data_cache : [Codes -> None or Some(record)]
  auto_update_enabled,\* self.auto_update_enabled
  auto_update_var,    \* self.auto_update_var (the checkbox)
  update_timer_id,    \* self.update_timer_id : None or Some(id)
  timers,             \* pending root.after(60000, schedule_auto_update) timers
  is_updating,        \* self.is_updating
  result_queue,       \* self.result_queue, FIFO
  stBtn,              \* self.update_btn state
  stStatus,           \* self.status_label text
  last_update_label,  \* self.last_update_label text: None ("") or Some(time)
  cards,              \* the children of self.stocks_container, top to bottom
  stDialog,           \* the last messagebox shown
  stErrCount,         \* number of showerror dialogs shown so far
  stW,                \* worker threads: [1..MaxFetches -> [pc, codes]]
  stLaunched,         \* number of worker threads started
  stEnqueued,         \* history: <<worker, type>> of every outcome put, in order
  stHandled,          \* history: <<worker, type>> of every outcome handled, in order
  stock_listbox,      \* the codes self.stock_listbox lists, top to bottom
  \* ---- the dashboard script (lesson7_1/main.py) ----
  rates_cache,        \* st.session_state.rates_cache : None or Some(table)
  web_last_update,    \* st.session_state.last_update : None or Some(time)
  need_refresh,       \* st.session_state.need_refresh : None (absent) or Some(bool)
  webBanners,         \* the st.success / warning / error banners of the last run
  webRun,             \* history: the class of outcome of each fetch of the last run
  webCurrencies,      \* the options of the currency selectbox of the last run
                      \* (empty when the run did not render the main area)
  \* ---- the guessing game (lesson3/lesson3_4.py) ----
  gamePc,             \* where the console program stands
  min,                \* play_game: min
  max,                \* play_game: max
  target,             \* play_game: target
  count,              \* play_game: count
  keyin,              \* play_game: the last guess read, None before the first
  is_play_again,      \* main: the last answer read
  printed,            \* the last line the program printed about a guess
  games,              \* history: number of calls of play_game
  \* ---- the calculator of ExchangeRateApp (lesson8/main.py) ----
  twd_entry,          \* self.twd_entry: the text of the amount entry
  result_label,       \* self.result_label: None (the hint) or Some(result shown)
  \* ---- clean_rate_data (lesson7_1/main.py) called on its own ----
  cleanRates,         \* the argument `rates`
  cleanDf             \* None before the call, Some(table returned) after it

fxUi == <<is_loading, exchange_data, last_update, fxBtn, fxStatus, time_label,
          tree, combo, comboSel, fxDialog, fxErrCount, clearTimers>>
fxVars == <<fxStarted, fxUi, fxW, fxLaunched, afterQ, fxApplied>>

stUi == <<stock_data_cache, is_updating, stBtn, stStatus, last_update_label,
          cards, stDialog, stErrCount>>
stAuto == <<auto_update_enabled, auto_update_var, update_timer_id, timers>>
stVars == <<watchlist, stUi, stAuto, result_queue, stW, stLaunched, stEnqueued,
            stHandled, stock_listbox>>

webVars == <<rates_cache, web_last_update, need_refresh, webBanners, webRun,
             webCurrencies>>

gameVars == <<gamePc, min, max, target, count, keyin, is_play_again, printed, games>>

calcVars == <<twd_entry, result_label>>

cleanVars == <<cleanRates, cleanDf>>

vars == <<app, now, thread, request, trigger, fxVars, stVars, webVars, gameVars,
          calcVars, cleanVars>>

(***************************************************************************)
(* ExchangeRateApp: data                                                    *)
(***************************************************************************)
\* records as fetch_exchange_rates builds them (lesson8/main.py:108-112)
FxRecords == {[cur |-> "USD", buy |-> "30.1", sell |-> "30.5"],
              [cur |-> "JPY", buy |-> "0.2", sell |-> "0.21"]}

FxLists == UNION {[1..n -> FxRecords] : n \in 0..MaxLen}

\* faults the fetch may raise, as str(e)
Faults == {"timeout"}

\* what loop.run_until_complete(fetch_exchange_rates()) can yield in run_async
FxOutcomes ==
  {[kind |-> "ok", data |-> d] : d \in FxLists} \cup
  {[kind |-> "none"]} \cup
  {[kind |-> "raise", fault |-> f] : f \in Faults}

Pending == [kind |-> "pending"]

\* `data` as bound in run_async after the fetch returned
FxData(res) == IF res.kind = "ok" THEN Some(res.data) ELSE None

LoadingText == "loading"
SuccessText == "success"
\* a messagebox: its kind (showinfo / showwarning / showerror) and its text
Msg(kind, text, detail) == [kind |-> kind, text |-> text, detail |-> detail]
NoDialog == Msg("none", "", "")
NoDataMessage == Msg("error", "no rate data, retry later", "")
\* f"爬蟲失敗: {str(e)}"
CrawlFailed(fault) == Msg("error", "crawl failed", fault)

(***************************************************************************)
(* ExchangeRateApp: UI-thread handlers                                      *)
(***************************************************************************)
IsEmptyResult(data) == IF data = None THEN TRUE ELSE Len(data.v) = 0

\* _update_treeview that inserts without deleting the old children
UpdateTreeviewKeepsOld(rows, data) ==
  LET recs == IF data = None THEN <<>> ELSE data.v
  IN  rows \o [i \in 1..Len(recs) |-> <<recs[i].cur, recs[i].buy, recs[i].sell>>]

\* _update_treeview: delete every child, then insert one row per record
UpdateTreeview(rows, data) ==
  LET cleared == SubSeq(rows, 1, 0)
      recs == IF data = None THEN <<>> ELSE data.v
  IN  cleared \o [i \in 1..Len(recs) |-> <<recs[i].cur, recs[i].buy, recs[i].sell>>]

\* the currencies of the records of s that have a currency, a buy and a sell
RECURSIVE SelectCur(_)
SelectCur(s) ==
  IF s = <<>> THEN <<>>
  ELSE LET r == Head(s)
       IN  (IF r.cur # "" /\ r.buy # "" /\ r.sell # "" THEN <<r.cur>> ELSE <<>>)
           \o SelectCur(Tail(s))

\* _update_currency_combo: currencies with both a buy and a sell value
AvailableCurrencies(data) == IF data = None THEN <<>> ELSE SelectCur(data.v)

\* _show_loading
ShowLoading ==
  /\ fxStatus' = LoadingText
  /\ fxBtn' = "disabled"

\* _show_error(message): _hide_loading, clear the flag, showerror
ShowError(message) ==
  /\ fxStatus' = ""
  /\ fxBtn' = "normal"
  /\ is_loading' = FALSE
  /\ fxDialog' = message
  /\ fxErrCount' = fxErrCount + 1
  /\ UNCHANGED <<exchange_data, last_update, time_label, tree, combo, comboSel,
                 clearTimers, now>>

\* _update_ui_with_data(data), data = None or Some(list)
UpdateUiWithData(data) ==
  IF IsEmptyResult(data)
  THEN \* _hide_loading; is_loading = False; showerror; return
       /\ fxStatus' = ""
       /\ fxBtn' = "normal"
       /\ is_loading' = FALSE
       /\ fxDialog' = NoDataMessage
       /\ fxErrCount' = fxErrCount + 1
       /\ UNCHANGED <<exchange_data, last_update, time_label, tree, combo,
                      comboSel, clearTimers, now>>
  ELSE /\ exchange_data' = data
       /\ now' = now + 1
       /\ last_update' = Some(now')
       /\ tree' = UpdateTreeview(tree, exchange_data')
       /\ combo' = AvailableCurrencies(exchange_data')
       /\ comboSel' = IF combo' # <<>> THEN combo'[1] ELSE comboSel
       /\ time_label' = last_update'
       \* status shows the success text; after(3000, clear) is scheduled
       /\ fxStatus' = SuccessText
       /\ clearTimers' = clearTimers + 1
       /\ fxBtn' = "normal"
       /\ is_loading' = FALSE
       /\ UNCHANGED <<fxDialog, fxErrCount>>

\* _fetch_data_thread up to thread.start()
FetchDataThread ==
  IF is_loading
  THEN /\ fxDialog' = Msg("info", "loading, please wait", "")
       /\ request' = "rejected: busy"
       /\ UNCHANGED <<is_loading, exchange_data, last_update, fxBtn, fxStatus,
                      time_label, tree, combo, comboSel, fxErrCount, clearTimers,
                      fxW, fxLaunched>>
  ELSE /\ is_loading' = TRUE
       /\ ShowLoading
       /\ request' = "launched"
       /\ fxLaunched' = fxLaunched + 1
       /\ fxW' = [fxW EXCEPT ![fxLaunched'] = [pc |-> "fetch", res |-> Pending,
                                               applied |-> 0]]
       /\ UNCHANGED <<exchange_data, last_update, time_label, tree, combo,
                      comboSel, fxDialog, fxErrCount, clearTimers>>

\* __init__ -> _load_initial_data
FxLoadInitialData ==
  /\ app = "fx" /\ ~fxStarted
  /\ fxStarted' = TRUE
  /\ FetchDataThread
  /\ trigger' = "startup"
  /\ thread' = "ui"
  /\ UNCHANGED <<stVars, webVars, gameVars, calcVars, cleanVars, app, now, afterQ, fxApplied>>

\* the user presses update_btn (a disabled tk.Button ignores the press)
FxPressUpdate ==
  /\ app = "fx" /\ fxStarted
  /\ fxBtn = "normal"
  /\ fxLaunched < MaxFetches
  /\ FetchDataThread
  /\ trigger' = "button"
  /\ thread' = "ui"
  /\ UNCHANGED <<stVars, webVars, gameVars, calcVars, cleanVars, app, now, fxStarted, afterQ, fxApplied>>

(***************************************************************************)
(* ExchangeRateApp: the worker thread run_async                             *)
(***************************************************************************)
\* run_until_complete ends; the try or the except block calls self.after(0, ..)
FxFetchDone(w, r) ==
  /\ app = "fx"
  /\ fxW[w].pc = "fetch"
  /\ fxW' = [fxW EXCEPT ![w].pc = IF r.kind = "raise" THEN "except" ELSE "tail",
                         ![w].res = r]
  /\ afterQ' = Append(afterQ, [w |-> w,
                               kind |-> IF r.kind = "raise" THEN "error" ELSE "data"])
  /\ thread' = "worker"
  /\ UNCHANGED <<request, trigger, stVars, webVars, gameVars, calcVars, cleanVars, app, now, fxStarted, fxUi, fxLaunched, fxApplied>>

\* the except block ends: Python unbinds `e`, which the scheduled lambda reads
FxLeaveExcept(w) ==
  /\ app = "fx"
  /\ fxW[w].pc = "except"
  /\ fxW' = [fxW EXCEPT ![w].pc = "tail"]
  /\ thread' = "worker"
  /\ UNCHANGED <<request, trigger, stVars, webVars, gameVars, calcVars, cleanVars, app, now, fxStarted, fxUi, fxLaunched, afterQ, fxApplied>>

\* finally: loop.close(); self.is_loading = False
FxFinally(w) ==
  /\ app = "fx"
  /\ fxW[w].pc = "tail"
  /\ fxW' = [fxW EXCEPT ![w].pc = "done"]
  /\ is_loading' = FALSE
  /\ thread' = "worker"
  /\ UNCHANGED <<request, trigger, stVars, webVars, gameVars, calcVars, cleanVars, app, now, fxStarted, exchange_data, last_update, fxBtn, fxStatus,
                 time_label, tree, combo, comboSel, fxDialog, fxErrCount,
                 clearTimers, fxLaunched, afterQ, fxApplied>>

(***************************************************************************)
(* ExchangeRateApp: Tk runs the callbacks the worker and the UI scheduled   *)
(***************************************************************************)
\* lambda: self._update_ui_with_data(data)
\* lambda: self._show_error(f"...{str(e)}"): `e` is a cell of run_async that
\* the worker unbinds when it leaves the except block; read after that the
\* lambda raises NameError and Tk reports the callback's exception.
FxRunCallback ==
  /\ app = "fx"
  /\ afterQ # <<>>
  /\ LET cb == Head(afterQ)
         res == fxW[cb.w].res
     IN  /\ afterQ' = Tail(afterQ)
         \* the closure is released once the callback has run
         /\ fxW' = [fxW EXCEPT ![cb.w].applied = @ + 1, ![cb.w].res = Pending]
         /\ IF cb.kind = "data"
            THEN /\ UpdateUiWithData(FxData(res))
                 /\ fxApplied' = [w |-> cb.w, kind |-> "success", payload |-> FxData(res),
                                  again |-> /\ fxApplied.kind = "success"
                                            /\ fxApplied.payload = FxData(res)]
            ELSE IF fxW[cb.w].pc = "except"
            THEN /\ ShowError(CrawlFailed(res.fault))
                 /\ fxApplied' = [w |-> cb.w, kind |-> "error",
                                  payload |-> Some(CrawlFailed(res.fault)),
                                  again |-> FALSE]
            ELSE /\ fxApplied' = [w |-> cb.w, kind |-> "NameError", payload |-> None,
                                  again |-> FALSE]
                 /\ UNCHANGED <<fxUi, now>>
  /\ thread' = "ui"
  /\ UNCHANGED <<request, trigger, stVars, webVars, gameVars, calcVars, cleanVars, app, fxStarted, fxLaunched>>

\* after(3000, lambda: self.status_label.config(text=""))
FxClearStatus ==
  /\ app = "fx"
  /\ clearTimers > 0
  /\ clearTimers' = clearTimers - 1
  /\ fxStatus' = ""
  /\ thread' = "ui"
  /\ UNCHANGED <<request, trigger, stVars, webVars, gameVars, calcVars, cleanVars, app, now, fxStarted, is_loading, exchange_data, last_update, fxBtn,
                 time_label, tree, combo, comboSel, fxDialog, fxErrCount, fxW,
                 fxLaunched, afterQ, fxApplied>>

FxNext ==
  \/ FxLoadInitialData
  \/ FxPressUpdate
  \/ \E w \in 1..MaxFetches : \E r \in FxOutcomes : FxFetchDone(w, r)
  \/ \E w \in 1..MaxFetches : FxLeaveExcept(w)
  \/ \E w \in 1..MaxFetches : FxFinally(w)
  \/ FxRunCallback
  \/ FxClearStatus

FxInit ==
  /\ fxStarted = FALSE
  /\ is_loading = FALSE
  /\ exchange_data = None
  /\ last_update = None
  /\ fxBtn = "normal"
  /\ fxStatus = ""
  /\ time_label = None
  /\ tree = <<>>
  /\ combo = <<>>
  /\ comboSel = ""
  /\ fxDialog = NoDialog
  /\ fxErrCount = 0
  /\ fxW = [w \in 1..MaxFetches |-> [pc |-> "idle", res |-> Pending, applied |-> 0]]
  /\ fxLaunched = 0
  /\ afterQ = <<>>
  /\ clearTimers = 0
  /\ fxApplied = [w |-> 0, kind |-> "none", payload |-> None, again |-> FALSE]

(***************************************************************************)
(* StockMonitorApp: data                                                    *)
(***************************************************************************)
\* the stock codes of the listbox, in ascending order (sorted())
CodeOrder == <<"2317", "2330">>
Codes == {CodeOrder[i] : i \in 1..Len(CodeOrder)}
NoSelection == "no selection"

\* the name twstock gives a code (self.all_stocks holds code, name, display text)
StockName(code) == IF code = "2330" THEN "TSMC" ELSE "Hon Hai"

\* what the user may type into the search entry
SearchTexts == {"", "2330", "tsmc"}

\* str.lower() on the texts of the model
Lower(s) ==
  CASE s = "TSMC" -> "tsmc"
    [] s = "Hon Hai" -> "hon hai"
    [] OTHER -> s

\* `sub in s` for a search text and a (lower-case) code or name
Contains(sub, s) == sub = "" \/ sub = s

\* a record as fetch_single_stock returns it: the scraped fields and
\* update_time are those of fetch number `gen`
StockRecord(code, gen) == [stock_code |-> code, gen |-> gen]

\* sorted(S) for a set of stock codes
Sorted(S) == SelectSeq(CodeOrder, LAMBDA c : c \in S)

\* the tuples (msg_type, data) of result_queue: data is the list `results`
\* of a 'success' and the text str(e) of an 'error'; w is the thread that put it
Success(results, w) == [type |-> "success", results |-> results, text |-> "", w |-> w]
Failure(text, w) == [type |-> "error", results |-> <<>>, text |-> text, w |-> w]

\* what fetch_multiple_stocks(stock_codes) yields in run_crawler_in_thread:
\* the records of the codes that downloaded and parsed, or an exception
StockOutcomes(codes, gen) ==
  {Success(LET ok == Sorted(S) IN [i \in 1..Len(ok) |-> StockRecord(ok[i], gen)], gen)
     : S \in SUBSET codes}
  \cup {Failure(f, gen) : f \in Faults}

EmptyCache == [c \in Codes |-> None]

Ready == <<"ready", 0>>
Updating(n) == <<"updating", n>>
UpdateDone == <<"update done", 0>>
UpdateFailed == <<"update failed", 0>>

(***************************************************************************)
(* StockMonitorApp: UI-thread handlers                                      *)
(***************************************************************************)
\* create_stock_card: a data card if the cache has the code, else a waiting card
StockCard(code, cache) == [code |-> code, data |-> cache[code]]

\* the ttk.Label of the empty state as a child of stocks_container: a widget
\* that stands for no stock and carries no data
EmptyHint == [code |-> "", data |-> None]

\* update_watchlist_display that walks the watchlist in descending code order
UpdateWatchlistDisplayDescending(wl, cache) ==
  IF wl = {} THEN <<EmptyHint>>
  ELSE LET order == Sorted(wl)
           n == Len(order)
       IN  [i \in 1..n |-> StockCard(order[n + 1 - i], cache)]

\* update_watchlist_display: destroy every child of stocks_container, then
\* pack the empty-state label when the watchlist is empty, and one card per
\* member of sorted(watchlist) otherwise
UpdateWatchlistDisplay(wl, cache) ==
  IF wl = {} THEN <<EmptyHint>>
  ELSE LET order == Sorted(wl)
       IN  [i \in 1..Len(order) |-> StockCard(order[i], cache)]

\* the for loop of on_update_complete over results
RECURSIVE StoreResults(_, _)
StoreResults(cache, results) ==
  IF results = <<>> THEN cache
  ELSE LET rec == Head(results)
       IN  StoreResults(IF rec.stock_code # ""
                        THEN [cache EXCEPT ![rec.stock_code] = Some(rec)]
                        ELSE cache,
                        Tail(results))

\* on_update_complete(results) on the fields st of the app
OnUpdateComplete(st, wl, results) ==
  LET cache == StoreResults(st.cache, results)
  IN  [st EXCEPT !.cache = cache,
                 !.cards = UpdateWatchlistDisplay(wl, cache),
                 !.is_updating = FALSE,
                 !.btn = "normal",
                 !.now = st.now + 1,
                 !.status = UpdateDone,
                 !.label = Some(st.now + 1)]

\* on_update_error that also drops the cached records and redraws
OnUpdateErrorClearsCache(st, wl, error_msg) ==
  [st EXCEPT !.is_updating = FALSE,
             !.btn = "normal",
             !.status = UpdateFailed,
             !.cache = EmptyCache,
             !.cards = UpdateWatchlistDisplay(wl, EmptyCache),
             !.dialog = Msg("error", "update failed", error_msg),
             !.errs = st.errs + 1]

\* on_update_error(error_msg)
OnUpdateError(st, wl, error_msg) ==
  [st EXCEPT !.is_updating = FALSE,
             !.btn = "normal",
             !.status = UpdateFailed,
             !.dialog = Msg("error", "update failed", error_msg),
             !.errs = st.errs + 1]

\* the body of the while loop of check_queue for one outcome
HandleOutcome(st, wl, msg) ==
  LET st2 == IF msg.type = "success" THEN OnUpdateComplete(st, wl, msg.results)
             ELSE IF msg.type = "error" THEN OnUpdateError(st, wl, msg.text)
             ELSE st
  IN  [st2 EXCEPT !.handled = Append(st.handled, <<msg.w, msg.type>>)]

\* check_queue that takes an outcome off the queue and does not handle it
DrainDropsOutcome(st, wl, q) ==
  IF q = <<>> THEN [st EXCEPT !.queue = q]
  ELSE [st EXCEPT !.queue = Tail(q)]

\* check_queue: get_nowait until queue.Empty
RECURSIVE Drain(_, _, _)
Drain(st, wl, q) ==
  IF q = <<>> THEN [st EXCEPT !.queue = q]
  ELSE Drain(HandleOutcome(st, wl, Head(q)), wl, Tail(q))

StState ==
  [cache |-> stock_data_cache, cards |-> cards, is_updating |-> is_updating,
   btn |-> stBtn, status |-> stStatus, label |-> last_update_label,
   dialog |-> stDialog, errs |-> stErrCount, now |-> now, handled |-> stHandled,
   queue |-> result_queue]

\* check_queue, run by root.after(100, self.check_queue) every 100 ms
CheckQueue ==
  /\ app = "stock"
  /\ LET st == Drain(StState, watchlist, result_queue)
     IN  /\ stock_data_cache' = st.cache
         /\ cards' = st.cards
         /\ is_updating' = st.is_updating
         /\ stBtn' = st.btn
         /\ stStatus' = st.status
         /\ last_update_label' = st.label
         /\ stDialog' = st.dialog
         /\ stErrCount' = st.errs
         /\ now' = st.now
         /\ stHandled' = st.handled
         /\ result_queue' = st.queue
  /\ thread' = "ui"
  /\ UNCHANGED <<request, trigger, webVars, gameVars, calcVars, cleanVars, stock_listbox, app, fxVars, watchlist, stAuto, stW, stLaunched, stEnqueued>>

\* on_search, the trace of search_var: refill the listbox with the stocks
\* whose code or name contains the text typed
OnSearch(text) ==
  /\ app = "stock"
  /\ LET search_text == Lower(text)
     IN  stock_listbox' =
           SelectSeq(CodeOrder, LAMBDA code : \/ Contains(search_text, Lower(code))
                                              \/ Contains(search_text, Lower(StockName(code))))
  /\ thread' = "ui"
  /\ UNCHANGED <<request, trigger, webVars, gameVars, calcVars, cleanVars, app, now, fxVars, watchlist, stUi, stAuto,
                 result_queue, stW, stLaunched, stEnqueued, stHandled>>

\* add_to_watchlist that takes a code already present off the watchlist
AddToWatchlistToggles(sel) ==
  /\ app = "stock"
  /\ sel \in {stock_listbox[i] : i \in 1..Len(stock_listbox)} \cup {NoSelection}
  /\ IF sel = NoSelection
     THEN /\ stDialog' = Msg("warning", "select a stock first", "")
          /\ UNCHANGED <<watchlist, cards>>
     ELSE /\ watchlist' = IF sel \in watchlist THEN watchlist \ {sel}
                          ELSE watchlist \cup {sel}
          /\ stDialog' = Msg("info", "added to the watchlist", sel)
          /\ cards' = UpdateWatchlistDisplay(watchlist', stock_data_cache)
  /\ thread' = "ui"
  /\ UNCHANGED <<request, trigger, webVars, gameVars, calcVars, cleanVars, stock_listbox, app, now, fxVars,
                 stock_data_cache, is_updating, stBtn, stStatus, last_update_label,
                 stErrCount, stAuto, result_queue, stW, stLaunched, stEnqueued,
                 stHandled>>

\* add_to_watchlist with the listbox selection sel
AddToWatchlist(sel) ==
  /\ app = "stock"
  /\ sel \in {stock_listbox[i] : i \in 1..Len(stock_listbox)} \cup {NoSelection}
  /\ IF sel = NoSelection
     THEN /\ stDialog' = Msg("warning", "select a stock first", "")
          /\ UNCHANGED <<watchlist, cards>>
     ELSE IF sel \in watchlist
     THEN /\ stDialog' = Msg("info", "already in the watchlist", sel)
          /\ UNCHANGED <<watchlist, cards>>
     ELSE /\ watchlist' = watchlist \cup {sel}
          /\ stDialog' = Msg("info", "added to the watchlist", sel)
          /\ cards' = UpdateWatchlistDisplay(watchlist', stock_data_cache)
  /\ thread' = "ui"
  /\ UNCHANGED <<request, trigger, webVars, gameVars, calcVars, cleanVars, stock_listbox, app, now, fxVars, stock_data_cache, is_updating, stBtn, stStatus,
                 last_update_label, stErrCount, stAuto, result_queue, stW,
                 stLaunched, stEnqueued, stHandled>>

\* remove_from_watchlist(stock_code), the command of the remove button that
\* create_stock_card puts on a data card
RemoveFromWatchlist(code) ==
  /\ app = "stock"
  /\ \E i \in 1..Len(cards) : cards[i].code = code /\ cards[i].data # None
  /\ IF code \in watchlist
     THEN /\ watchlist' = watchlist \ {code}
          /\ stock_data_cache' = [stock_data_cache EXCEPT ![code] = None]
          /\ cards' = UpdateWatchlistDisplay(watchlist', stock_data_cache')
     ELSE UNCHANGED <<watchlist, stock_data_cache, cards>>
  /\ thread' = "ui"
  /\ UNCHANGED <<request, trigger, webVars, gameVars, calcVars, cleanVars, stock_listbox, app, now, fxVars, is_updating, stBtn, stStatus, last_update_label,
                 stDialog, stErrCount, stAuto, result_queue, stW, stLaunched,
                 stEnqueued, stHandled>>

\* start_update: set the flag, disable the button, start the worker thread
\* on a snapshot list(self.watchlist)
StartUpdate ==
  /\ is_updating' = TRUE
  /\ stBtn' = "disabled"
  /\ stStatus' = Updating(Cardinality(watchlist))
  /\ stLaunched' = stLaunched + 1
  /\ stW' = [stW EXCEPT ![stLaunched'] = [pc |-> "fetch", codes |-> watchlist]]

\* manual_update, the command of update_btn (a disabled button ignores the press)
ManualUpdate ==
  /\ app = "stock"
  /\ stBtn = "normal"
  /\ stLaunched < MaxFetches
  /\ IF watchlist = {}
     THEN /\ stDialog' = Msg("info", "the watchlist is empty", "")
          /\ request' = "rejected: empty"
          /\ UNCHANGED <<is_updating, stBtn, stStatus, stLaunched, stW>>
     ELSE IF is_updating
     THEN /\ stDialog' = Msg("info", "updating, please wait", "")
          /\ request' = "rejected: busy"
          /\ UNCHANGED <<is_updating, stBtn, stStatus, stLaunched, stW>>
     ELSE /\ StartUpdate
          /\ request' = "launched"
          /\ UNCHANGED stDialog
  /\ trigger' = "button"
  /\ thread' = "ui"
  /\ UNCHANGED <<webVars, gameVars, calcVars, cleanVars, stock_listbox, app, now, fxVars, watchlist, stock_data_cache, last_update_label,
                 cards, stErrCount, stAuto, result_queue, stEnqueued, stHandled>>

\* the smallest timer id not pending
NewTimer(pending) ==
  CHOOSE i \in (1..MaxTimers) \ pending : \A j \in (1..MaxTimers) \ pending : i <= j

\* schedule_auto_update without the test of is_updating
AutoUpdateStartsWhileBusy(enabled) == enabled /\ watchlist # {}

\* whether schedule_auto_update starts an update
AutoUpdateStarts(enabled) == enabled /\ watchlist # {} /\ ~is_updating

\* schedule_auto_update with self.auto_update_enabled = enabled and the timers
\* in `pending` still waiting
ScheduleAutoUpdate(enabled, pending) ==
  /\ AutoUpdateStarts(enabled) => stLaunched < MaxFetches
  /\ enabled => (1..MaxTimers) \ pending # {}
  /\ IF AutoUpdateStarts(enabled)
     THEN /\ StartUpdate
          /\ request' = "launched"
     ELSE /\ UNCHANGED <<is_updating, stBtn, stStatus, stLaunched, stW>>
          /\ request' = IF ~enabled THEN request
                        ELSE IF watchlist = {} THEN "rejected: empty"
                        ELSE "rejected: busy"
  /\ IF enabled
     THEN /\ update_timer_id' = Some(NewTimer(pending))
          /\ timers' = pending \cup {NewTimer(pending)}
     ELSE /\ UNCHANGED update_timer_id
          /\ timers' = pending

\* toggle_auto_update, the command of the checkbox (which flips its variable)
ToggleAutoUpdate ==
  /\ app = "stock"
  /\ auto_update_var' = ~auto_update_var
  /\ auto_update_enabled' = auto_update_var'
  /\ IF auto_update_enabled'
     THEN ScheduleAutoUpdate(TRUE, timers)
     ELSE /\ IF update_timer_id # None
             THEN /\ timers' = timers \ {update_timer_id.v}
                  /\ update_timer_id' = None
             ELSE UNCHANGED <<timers, update_timer_id>>
          /\ UNCHANGED <<is_updating, stBtn, stStatus, stLaunched, stW, request>>
  /\ trigger' = IF auto_update_enabled' THEN "checkbox" ELSE trigger
  /\ thread' = "ui"
  /\ UNCHANGED <<webVars, gameVars, calcVars, cleanVars, stock_listbox, app, now, fxVars, watchlist, stock_data_cache, last_update_label,
                 cards, stDialog, stErrCount, result_queue, stEnqueued, stHandled>>

\* a 60 s timer fires and runs schedule_auto_update
AutoUpdateTimer(id) ==
  /\ app = "stock"
  /\ id \in timers
  /\ ScheduleAutoUpdate(auto_update_enabled, timers \ {id})
  /\ trigger' = IF auto_update_enabled THEN "timer" ELSE trigger
  /\ thread' = "ui"
  /\ UNCHANGED <<webVars, gameVars, calcVars, cleanVars, stock_listbox, app, now, fxVars, watchlist, stock_data_cache, last_update_label,
                 cards, stDialog, stErrCount, auto_update_enabled, auto_update_var,
                 result_queue, stEnqueued, stHandled>>

(***************************************************************************)
(* StockMonitorApp: the worker thread run_crawler_in_thread                 *)
(***************************************************************************)
\* what the thread puts on the queue for the outcome r of the fetch
WorkerPuts(r) == <<r>>

\* run_until_complete ends: put ('success', results), or in the except
\* block put ('error', str(e)); loop.close() writes nothing of the app
StockFetchDone(w, r) ==
  /\ app = "stock"
  /\ stW[w].pc = "fetch"
  /\ stW' = [stW EXCEPT ![w].pc = "done"]
  /\ result_queue' = result_queue \o WorkerPuts(r)
  /\ stEnqueued' = stEnqueued \o
                     [i \in 1..Len(WorkerPuts(r)) |-> <<WorkerPuts(r)[i].w, WorkerPuts(r)[i].type>>]
  /\ thread' = "worker"
  /\ UNCHANGED <<request, trigger, webVars, gameVars, calcVars, cleanVars, stock_listbox, app, now, fxVars, watchlist, stUi, stAuto, stLaunched, stHandled>>

StockNext ==
  \/ CheckQueue
  \/ \E text \in SearchTexts : OnSearch(text)
  \/ \E sel \in Codes \cup {NoSelection} : AddToWatchlist(sel)
  \/ \E code \in Codes : RemoveFromWatchlist(code)
  \/ ManualUpdate
  \/ ToggleAutoUpdate
  \/ \E id \in 1..MaxTimers : AutoUpdateTimer(id)
  \/ \E w \in 1..MaxFetches : \E r \in StockOutcomes(stW[w].codes, w) : StockFetchDone(w, r)

StockInit ==
  /\ watchlist = {}
  /\ stock_data_cache = EmptyCache
  /\ auto_update_enabled = FALSE
  /\ auto_update_var = FALSE
  /\ update_timer_id = None
  /\ timers = {}
  /\ is_updating = FALSE
  /\ result_queue = <<>>
  /\ stBtn = "normal"
  /\ stStatus = Ready
  /\ last_update_label = None
  \* create_widgets packs the empty-state label
  /\ cards = <<EmptyHint>>
  /\ stDialog = NoDialog
  /\ stErrCount = 0
  /\ stW = [w \in 1..MaxFetches |-> [pc |-> "idle", codes |-> {}]]
  /\ stLaunched = 0
  /\ stEnqueued = <<>>
  /\ stHandled = <<>>
  \* load_tw_stocks fills the listbox with every stock
  /\ stock_listbox = CodeOrder

(***************************************************************************)
(* The dashboard script: text and numbers                                   *)
(***************************************************************************)
Suspended == "SUSPENDED"        \* the marker "暫停交易"

\* the scraped texts of the model
Texts == {"", "USD", " JPY ", "JPY", "30.1", " 30.5 ", "30.5", "abc", Suspended}

\* str.strip()
Strip(s) ==
  CASE s = " JPY " -> "JPY"
    [] s = " 30.5 " -> "30.5"
    [] s = " 100 " -> "100"
    [] OTHER -> s

\* whether float(s) returns (it raises ValueError otherwise)
IsFloat(s) == s \in {"30.1", "30.5"}

\* float(s), in hundredths
FloatOf(s) == CASE s = "30.1" -> 3010 [] s = "30.5" -> 3050 [] OTHER -> 0

\* "暫停交易" in s
HasSuspended(s) == s = Suspended

\* the body of the loop without the test for the suspended marker
CleanRowKeepsSuspended(rate) ==
  LET currency == Strip(rate.cur)
      buy0 == Strip(rate.buy)
      sell0 == Strip(rate.sell)
      buy_rate == IF buy0 = "" THEN Suspended ELSE buy0
      sell_rate == IF sell0 = "" THEN Suspended ELSE sell0
  IN  IF currency = "" THEN <<>>
      ELSE IF buy_rate # Suspended /\ ~IsFloat(buy_rate) THEN <<>>
      ELSE IF sell_rate # Suspended /\ ~IsFloat(sell_rate) THEN <<>>
      ELSE LET buy_float == IF buy_rate # Suspended THEN Some(FloatOf(buy_rate)) ELSE None
               sell_float == IF sell_rate # Suspended THEN Some(FloatOf(sell_rate)) ELSE None
           IN  IF buy_float # None \/ sell_float # None
               THEN <<[cur |-> currency, buy |-> buy_rate, sell |-> sell_rate,
                       buyv |-> buy_float, sellv |-> sell_float]>>
               ELSE <<>>

\* the body of the for loop of clean_rate_data: the rows one scraped row adds
CleanRow(rate) ==
  LET currency == Strip(rate.cur)
      buy0 == Strip(rate.buy)
      sell0 == Strip(rate.sell)
      buy_rate == IF buy0 = "" THEN Suspended ELSE buy0
      sell_rate == IF sell0 = "" THEN Suspended ELSE sell0
  IN  IF currency = "" THEN <<>>
      ELSE IF HasSuspended(buy0) \/ HasSuspended(sell0) THEN <<>>
      ELSE IF buy_rate # Suspended /\ ~IsFloat(buy_rate) THEN <<>>     \* ValueError
      ELSE IF sell_rate # Suspended /\ ~IsFloat(sell_rate) THEN <<>>   \* ValueError
      ELSE LET buy_float == IF buy_rate # Suspended THEN Some(FloatOf(buy_rate)) ELSE None
               sell_float == IF sell_rate # Suspended THEN Some(FloatOf(sell_rate)) ELSE None
           IN  IF buy_float # None \/ sell_float # None
               THEN <<[cur |-> currency, buy |-> buy_rate, sell |-> sell_rate,
                       buyv |-> buy_float, sellv |-> sell_float]>>
               ELSE <<>>

\* clean_rate_data(rates): the DataFrame as the sequence of its rows
RECURSIVE clean_rate_data(_)
clean_rate_data(rates) ==
  IF rates = <<>> THEN <<>>
  ELSE CleanRow(Head(rates)) \o clean_rate_data(Tail(rates))

\* the scraped rows a fetch of the dashboard may return
WebRows == {[cur |-> "USD", buy |-> "30.1", sell |-> " 30.5 "],
            [cur |-> " JPY ", buy |-> "", sell |-> "30.5"],
            [cur |-> "USD", buy |-> Suspended, sell |-> Suspended],
            [cur |-> "JPY", buy |-> "abc", sell |-> "30.5"],
            [cur |-> "JPY", buy |-> "30.1", sell |-> ""]}

\* what asyncio.run(fetch_exchange_rates()) can yield: a list (json of the
\* page), None (nothing extracted), an exception (network, json.loads)
WebOutcomes ==
  {[kind |-> "ok", data |-> d] : d \in UNION {[1..n -> WebRows] : n \in 0..MaxRows}}
  \cup {[kind |-> "none"]}
  \cup {[kind |-> "raise", fault |-> f] : f \in Faults}

\* a banner and the block of the script that showed it
Banner(kind, text, detail, block) ==
  [kind |-> kind, text |-> text, detail |-> detail, block |-> block]

(***************************************************************************)
(* The dashboard script: one run (streamlit reruns it on every interaction) *)
(***************************************************************************)
RefreshMinutes == 10

\* need_update that takes a cache of exactly 10 minutes for young
NeedUpdateOlderOnly ==
  IF rates_cache = None THEN TRUE
  ELSE IF web_last_update # None THEN now - web_last_update.v > RefreshMinutes
  ELSE FALSE

\* lines 150-158: need_update
NeedUpdate ==
  IF rates_cache = None THEN TRUE
  ELSE IF web_last_update # None THEN now - web_last_update.v >= RefreshMinutes
  ELSE FALSE

\* the refresh block without the test of rates_df.empty
RefreshBlockSavesEmpty(ss, r) ==
  IF r.kind = "raise"
  THEN [ss EXCEPT !.banners = Append(@, Banner("error", "update failed", r.fault, "refresh"))]
  ELSE IF r.kind = "ok" /\ r.data # <<>>
  THEN [ss EXCEPT !.cache = Some(clean_rate_data(r.data)), !.last = Some(now),
                  !.banners = Append(@, Banner("success", "rates updated", "", "refresh"))]
  ELSE [ss EXCEPT !.banners = Append(@, Banner("error", "no rate data, retry later", "", "refresh"))]

\* lines 163-177: what the refresh block does with the outcome r of its fetch;
\* ss is the session state [cache, last]
RefreshBlock(ss, r) ==
  IF r.kind = "raise"
  THEN [ss EXCEPT !.banners = Append(@, Banner("error", "update failed", r.fault, "refresh"))]
  ELSE IF r.kind = "ok" /\ r.data # <<>>
  THEN LET rates_df == clean_rate_data(r.data)
       IN  IF rates_df # <<>>
           THEN [ss EXCEPT !.cache = Some(rates_df), !.last = Some(now),
                           !.banners = Append(@, Banner("success", "rates updated", "", "refresh"))]
           ELSE [ss EXCEPT !.banners = Append(@, Banner("warning", "no valid rate data", "", "refresh"))]
  ELSE [ss EXCEPT !.banners = Append(@, Banner("error", "no rate data, retry later", "", "refresh"))]

\* lines 272-279: what the initial-load branch does with the outcome r of its fetch
InitialLoad(ss, r) ==
  IF r.kind = "raise"
  THEN [ss EXCEPT !.banners = Append(@, Banner("error", "initialisation failed", r.fault, "initial"))]
  ELSE IF r.kind = "ok" /\ r.data # <<>>
  THEN LET rates_df == clean_rate_data(r.data)
       IN  IF rates_df # <<>>
           THEN [ss EXCEPT !.cache = Some(rates_df), !.last = Some(now)]
           ELSE ss
  ELSE ss

\* lines 183 / 269: the main area is rendered, or the initial load runs
ShowsMainArea(ss) == ss.cache # None /\ ss.cache.v # <<>>

\* what a fetch yielded, as the script tells the outcomes apart
OutcomeClass(r) ==
  IF r.kind = "ok" THEN (IF r.data = <<>> THEN "empty" ELSE "list") ELSE r.kind

\* line 201: the options of the currency selectbox for the table rates_df
CurrencyOptions(rates_df) ==
  LET rows == SelectSeq(rates_df, LAMBDA row : row.buyv # None)
  IN  [i \in 1..Len(rows) |-> rows[i].cur]

\* the end of a run: the session state and what the run showed and fetched
\* (c2 = "no fetch": the run rendered the main area)
WebEnd(ss, flag, pressed, c1, c2) ==
  /\ webCurrencies' = IF c2 = "no fetch" THEN CurrencyOptions(ss.cache.v) ELSE <<>>
  /\ rates_cache' = ss.cache
  /\ web_last_update' = ss.last
  /\ need_refresh' = flag
  /\ webBanners' = ss.banners
  /\ webRun' = [refresh |-> c1, initial |-> c2, pressed |-> pressed]

\* lines 269-279, after the refresh decision left the session state ss
WebMainOrInitial(ss, flag, pressed, c1) ==
  IF ShowsMainArea(ss)
  THEN WebEnd(ss, flag, pressed, c1, "no fetch")
  ELSE \E r2 \in WebOutcomes :
         WebEnd(InitialLoad(ss, r2), flag, pressed, c1, OutcomeClass(r2))

\* one run of the script; pressed: the manual-refresh button caused the run
WebRunWith(pressed) ==
  LET ss0 == [cache |-> rates_cache, last |-> web_last_update, banners |-> <<>>]
      \* line 147-148
      flag0 == IF pressed THEN Some(TRUE) ELSE need_refresh
      \* line 161
      refresh == NeedUpdate \/ (flag0 # None /\ flag0.v)
      \* lines 179-180
      flag1 == IF refresh /\ flag0 # None THEN Some(FALSE) ELSE flag0
  IN  IF refresh
      THEN \E r1 \in WebOutcomes :
             WebMainOrInitial(RefreshBlock(ss0, r1), flag1, pressed, OutcomeClass(r1))
      ELSE WebMainOrInitial(ss0, flag1, pressed, "no fetch")

WebRun ==
  /\ app = "web"
  /\ \E pressed \in BOOLEAN : WebRunWith(pressed)
  /\ thread' = "ui"
  /\ UNCHANGED <<request, trigger, gameVars, calcVars, cleanVars, app, now, fxVars, stVars>>

\* time passes between two runs
WebTick ==
  /\ app = "web"
  /\ now + TickMinutes <= MaxNow
  /\ now' = now + TickMinutes
  /\ thread' = "ui"
  /\ UNCHANGED <<request, trigger, gameVars, calcVars, cleanVars, app, fxVars, stVars, webVars>>

WebNext == WebRun \/ WebTick

WebInit ==
  /\ rates_cache = None
  /\ web_last_update = None
  /\ need_refresh = None
  /\ webBanners = <<>>
  /\ webRun = [refresh |-> "no fetch", initial |-> "no fetch", pressed |-> FALSE]
  /\ webCurrencies = <<>>

(***************************************************************************)
(* The guessing game (lesson3/lesson3_4.py): a console program, one thread  *)
(***************************************************************************)
\* what the player may answer to "continue? y/n"
Answers == {"n", "y", "N", ""}

\* line 15 without the test of the upper end
InRangeFromBelow(guess, lo, hi) == guess >= lo

\* line 15: the guess lies within the range of the prompt
InRange(guess, lo, hi) == guess >= lo /\ guess <= hi

\* line 41 reading every answer but 'y' as a no
QuitsUnlessYes(answer) == answer # "y"

\* line 41: the answer ends the main loop
Quits(answer) == answer = "n"

\* line 23 taking one more off the upper end
NewMaxTooLow(keyin_) == keyin_ - 2

\* line 23: the upper end after a guess above the target
NewMax(keyin_) == keyin_ - 1

\* line 27: the lower end after a guess below the target
NewMin(keyin_) == keyin_ + 1

\* main calls play_game: lines 5-11, up to the first prompt
PlayGame ==
  /\ app = "game"
  /\ gamePc = "main"
  /\ games < MaxGames
  /\ games' = games + 1
  /\ min' = 1
  /\ max' = MaxNumber
  /\ count' = 0
  /\ target' \in min'..max'
  /\ keyin' = None
  /\ printed' = "title"
  /\ gamePc' = "guess"
  /\ thread' = "ui"
  /\ UNCHANGED <<app, now, request, trigger, fxVars, stVars, webVars, calcVars, cleanVars, is_play_again>>

\* one pass of the while loop of play_game: the player enters the integer guess
Guess(guess) ==
  /\ app = "game"
  /\ gamePc = "guess"
  /\ count < MaxGuesses
  /\ keyin' = Some(guess)
  /\ count' = count + 1
  /\ IF InRange(guess, min, max)
     THEN IF target = guess
          THEN /\ printed' = "hit"
               /\ gamePc' = "again"
               /\ UNCHANGED <<min, max>>
          ELSE IF guess > target
          THEN /\ printed' = "smaller"
               /\ max' = NewMax(guess)
               /\ UNCHANGED <<min, gamePc>>
          ELSE /\ printed' = "larger"
               /\ min' = NewMin(guess)
               /\ UNCHANGED <<max, gamePc>>
     ELSE /\ printed' = "enter a number within the range"
          /\ UNCHANGED <<min, max, gamePc>>
  /\ thread' = "ui"
  /\ UNCHANGED <<app, now, request, trigger, fxVars, stVars, webVars, calcVars, cleanVars, target, is_play_again,
                 games>>

\* the player enters something int() rejects: ValueError ends the program
GuessNotANumber ==
  /\ app = "game"
  /\ gamePc = "guess"
  /\ gamePc' = "crashed"
  /\ printed' = "ValueError"
  /\ thread' = "ui"
  /\ UNCHANGED <<app, now, request, trigger, fxVars, stVars, webVars, calcVars, cleanVars, min, max, target, count,
                 keyin, is_play_again, games>>

\* lines 39-44: the answer to "continue? y/n"
Answer(answer) ==
  /\ app = "game"
  /\ gamePc = "again"
  /\ is_play_again' = answer
  /\ gamePc' = IF Quits(answer) THEN "over" ELSE "main"
  /\ thread' = "ui"
  /\ UNCHANGED <<app, now, request, trigger, fxVars, stVars, webVars, calcVars, cleanVars, min, max, target, count,
                 keyin, printed, games>>

GameNext ==
  \/ PlayGame
  \/ \E guess \in 0..(MaxNumber + 1) : Guess(guess)
  \/ GuessNotANumber
  \/ \E answer \in Answers : Answer(answer)

GameInit ==
  /\ gamePc = "main"
  /\ min = 0
  /\ max = 0
  /\ target = 0
  /\ count = 0
  /\ keyin = None
  /\ is_play_again = ""
  /\ printed = ""
  /\ games = 0

(***************************************************************************)
(* The calculator of ExchangeRateApp before its first use                   *)
(***************************************************************************)
\* lines 290-292, 337-339: the entry holds "1000", the result shows the hint
CalcInit ==
  /\ twd_entry = "1000"
  /\ result_label = None

(***************************************************************************)
(* clean_rate_data called on its own on lists of scraped rows               *)
(***************************************************************************)
\* longest list of rows handed to clean_rate_data
MaxCleanLen == 2

\* the texts of a scraped row
CleanCurrencies == {"", "USD", " JPY "}
CleanRateTexts == {"", " 30.5 ", "abc", Suspended}
CleanRows == [cur : CleanCurrencies, buy : CleanRateTexts, sell : CleanRateTexts]
CleanInputs == UNION {[1..n -> CleanRows] : n \in 0..MaxCleanLen}

\* clean_rate_data is not being called
CleanIdle ==
  /\ cleanRates = <<>>
  /\ cleanDf = None

\* rates_df = clean_rate_data(rates)
CleanApply ==
  /\ app = "clean"
  /\ cleanDf = None
  /\ cleanDf' = Some(clean_rate_data(cleanRates))
  /\ thread' = "ui"
  /\ UNCHANGED <<app, now, request, trigger, fxVars, stVars, webVars, gameVars,
                 calcVars, cleanRates>>

CleanNext == CleanApply

CleanInit ==
  /\ app = "clean"
  /\ now = 0
  /\ thread = "ui"
  /\ request = "none"
  /\ trigger = "none"
  /\ FxInit
  /\ StockInit
  /\ WebInit
  /\ GameInit
  /\ CalcInit
  /\ cleanRates \in CleanInputs
  /\ cleanDf = None

CleanSpec == CleanInit /\ [][CleanNext]_vars

Apps == {"fx", "stock", "web", "game"}

Init ==
  /\ app \in Apps
  /\ now = 0
  /\ thread = "ui"
  /\ request = "none"
  /\ trigger = "none"
  /\ FxInit
  /\ StockInit
  /\ WebInit
  /\ GameInit
  /\ CalcInit
  /\ CleanIdle

Next == FxNext \/ StockNext \/ WebNext \/ GameNext

Spec == Init /\ [][Next]_vars

(***************************************************************************)
(* ExchangeRateApp: the calculator (the amount entry, the currency combo    *)
(* box, the calculate button and the result label)                          *)
(***************************************************************************)
\* what the user may have typed into the amount entry
AmountTexts == {"", "abc", "0", "-5", " 100 ", "nan"}

\* a Python float: a number (in units the context fixes) or nan; ValueError
\* stands for float() raising
Num(v) == [kind |-> "num", v |-> v]
NaN == [kind |-> "nan", v |-> 0]
ValueError == [kind |-> "ValueError", v |-> 0]

\* float(s) for an amount text, in dollars
AmountOf(s) ==
  CASE s = "0" -> Num(0)
    [] s = "-5" -> Num(-5)
    [] s = "100" -> Num(100)
    [] s = "1000" -> Num(1000)
    [] s = "nan" -> NaN
    [] OTHER -> ValueError

\* float(s) for the rate texts of FxRecords, in hundredths
RateOf(s) ==
  CASE s = "30.1" -> Num(3010)
    [] s = "30.5" -> Num(3050)
    [] s = "0.2" -> Num(20)
    [] s = "0.21" -> Num(21)
    [] OTHER -> ValueError

\* x <= 0 for floats: every comparison with nan is False
LeqZero(x) == x.kind = "num" /\ x.v <= 0

\* amount / rate, in hundredths of the foreign currency; nan / x = nan
Divide(amount, rate) ==
  IF amount.kind = "nan" \/ rate.kind = "nan" THEN NaN
  ELSE Num((amount.v * 10000) \div rate.v)

\* _find_rate_by_currency: the first record of exchange_data with the currency
FindRateByCurrency(currency) ==
  IF IsEmptyResult(exchange_data) THEN None
  ELSE LET hits == SelectSeq(exchange_data.v, LAMBDA rate : rate.cur = currency)
       IN  IF hits = <<>> THEN None ELSE Some(hits[1])

\* the showwarning / showerror of _calculate_conversion, which then returns
CalcRefuses(message) ==
  /\ fxDialog' = message
  /\ UNCHANGED <<result_label, fxErrCount>>

\* the user leaves `text` in the amount entry and presses the calculate
\* button: _calculate_conversion
FxCalculate(text) ==
  /\ app = "fx"
  /\ twd_entry' = text
  /\ LET twd_amount_str == Strip(text)
         twd_amount == AmountOf(twd_amount_str)
         selected_currency == comboSel
         rate_data == FindRateByCurrency(selected_currency)
     IN  IF twd_amount_str = ""
         THEN CalcRefuses(Msg("warning", "enter an amount", ""))
         ELSE IF twd_amount = ValueError
         THEN CalcRefuses(Msg("error", "enter a valid amount", ""))
         ELSE IF LeqZero(twd_amount)
         THEN CalcRefuses(Msg("warning", "the amount must be greater than 0", ""))
         ELSE IF selected_currency = ""
         THEN CalcRefuses(Msg("warning", "select a currency", ""))
         ELSE IF rate_data = None
         THEN CalcRefuses(Msg("error", "no rate found", selected_currency))
         ELSE IF RateOf(rate_data.v.buy) = ValueError \/ RateOf(rate_data.v.sell) = ValueError
         THEN CalcRefuses(Msg("error", "enter a valid amount", ""))
         ELSE /\ result_label' =
                   Some([amount |-> twd_amount, currency |-> selected_currency,
                         buy_result |-> Divide(twd_amount, RateOf(rate_data.v.buy)),
                         sell_result |-> Divide(twd_amount, RateOf(rate_data.v.sell))])
              /\ UNCHANGED <<fxDialog, fxErrCount>>
  /\ thread' = "ui"
  /\ UNCHANGED <<request, trigger, stVars, webVars, gameVars, cleanVars, app, now,
                 fxStarted, is_loading, exchange_data, last_update, fxBtn, fxStatus,
                 time_label, tree, combo, comboSel, clearTimers, fxW, fxLaunched,
                 afterQ, fxApplied>>

\* the user picks a currency in the (read-only) combo box
FxSelectCurrency(currency) ==
  /\ app = "fx"
  /\ \E i \in 1..Len(combo) : combo[i] = currency
  /\ comboSel' = currency
  /\ thread' = "ui"
  /\ UNCHANGED <<request, trigger, stVars, webVars, gameVars, calcVars, cleanVars, app,
                 now, fxStarted, is_loading, exchange_data, last_update, fxBtn,
                 fxStatus, time_label, tree, combo, fxDialog, fxErrCount, clearTimers,
                 fxW, fxLaunched, afterQ, fxApplied>>

(***************************************************************************)
(* ExchangeRateApp with its calculator in use                               *)
(***************************************************************************)
CalcNext ==
  \/ FxNext
  \/ \E text \in AmountTexts : FxCalculate(text)
  \/ \E currency \in {r.cur : r \in FxRecords} : FxSelectCurrency(currency)

\* main(): the program started is ExchangeRateApp
CalcStart ==
  /\ Init
  /\ app = "fx"

CalcSpec == CalcStart /\ [][CalcNext]_vars

(***************************************************************************)
(* Properties                                                               *)
(***************************************************************************)
\* the worker threads whose fetch has not yet ended
FxInFlight == {w \in 1..MaxFetches : fxW[w].pc = "fetch"}
StInFlight == {w \in 1..MaxFetches : stW[w].pc = "fetch"}

\* C1: in both desktop apps no step starts a worker thread while a fetch is
\* in flight, and at most one fetch is in flight at any time.
C1_NoSecondWorker ==
  [][/\ FxInFlight # {} => fxLaunched' = fxLaunched
     /\ StInFlight # {} => stLaunched' = stLaunched
     /\ Cardinality(FxInFlight') <= 1
     /\ Cardinality(StInFlight') <= 1]_vars

\* a refresh request (the auto-update timer) was turned down while the fetch
\* of the first worker was in flight
C1_Witness ==
  /\ app = "stock"
  /\ request = "rejected: busy"
  /\ StInFlight # {}
  /\ stLaunched = 1

\* the fetches the cached records of the stock app come from
CacheGens == {stock_data_cache[c].v.gen : c \in {d \in Codes : stock_data_cache[d] # None}}
CardGens == {cards[i].data.v.gen : i \in {j \in 1..Len(cards) : cards[j].data # None}}

\* C2: all records of stock_data_cache, and all records the cards show, come
\* from one single fetch.
C2_SingleFetchSnapshot ==
  /\ Cardinality(CacheGens) <= 1
  /\ Cardinality(CardGens) <= 1

\* a poll that handles exactly one outcome, a success without records
PollsEmptySuccess ==
  /\ app = "stock"
  /\ Len(result_queue) = 1
  /\ result_queue[1].type = "success"
  /\ result_queue[1].results = <<>>
  /\ result_queue' = <<>>

\* C3: a fetch of the stock app that yields zero records is handled as a
\* failure: an error is shown, the update is not reported as completed and
\* the last-updated time is not stamped.
C3_EmptyFetchIsFailure ==
  [][PollsEmptySuccess =>
       /\ stErrCount' = stErrCount + 1
       /\ stStatus' # UpdateDone
       /\ last_update_label' = last_update_label]_vars

\* Tk runs a data callback whose fetch result is None or an empty list
FxAppliesEmptyResult ==
  /\ app = "fx"
  /\ afterQ # <<>>
  /\ Head(afterQ).kind = "data"
  /\ IsEmptyResult(FxData(fxW[Head(afterQ).w].res))
  /\ afterQ' = Tail(afterQ)

\* the banners of the last run of the dashboard that block `block` showed as errors
ErrorBanners(block) ==
  {i \in 1..Len(webBanners) : webBanners[i].kind = "error" /\ webBanners[i].block = block}

EmptyClasses == {"none", "empty"}

\* C4: in ExchangeRateApp and in the dashboard a fetch result that is None or
\* an empty list is handled as a failure: an error message is shown for it,
\* and the stored records and the last-update time stay as they were.
C4_EmptyResultIsFailure ==
  [][/\ FxAppliesEmptyResult =>
          /\ fxErrCount' = fxErrCount + 1
          /\ fxDialog'.kind = "error"
          /\ UNCHANGED <<exchange_data, last_update, time_label, tree, combo>>
     /\ (app = "web" /\ webRun'.refresh \in EmptyClasses) => ErrorBanners("refresh")' # {}
     /\ (app = "web" /\ webRun'.initial \in EmptyClasses) => ErrorBanners("initial")' # {}
     /\ (/\ app = "web"
         /\ webRun'.refresh \in EmptyClasses \cup {"no fetch"}
         /\ webRun'.initial \in EmptyClasses \cup {"no fetch"})
        => UNCHANGED <<rates_cache, web_last_update>>]_vars

\* Tk runs a callback that applies an error outcome: _show_error, or
\* _update_ui_with_data with nothing to show
FxAppliesError ==
  /\ app = "fx"
  /\ afterQ # <<>>
  /\ afterQ' = Tail(afterQ)
  /\ \/ FxAppliesEmptyResult
     \/ Head(afterQ).kind = "error" /\ fxApplied'.kind = "error"

\* a poll of the stock app that handles error outcomes only
PollsErrors ==
  /\ app = "stock"
  /\ result_queue # <<>>
  /\ \A i \in 1..Len(result_queue) : result_queue[i].type = "error"
  /\ result_queue' = <<>>

\* C5: in both desktop apps applying an error outcome leaves the cached
\* records, the rows or cards shown and the last-updated time unchanged and
\* shows an error message, with or without earlier data.
C5_ErrorKeepsData ==
  [][/\ FxAppliesError =>
          /\ UNCHANGED <<exchange_data, tree, combo, last_update, time_label>>
          /\ fxErrCount' = fxErrCount + 1
          /\ fxDialog'.kind = "error"
     /\ PollsErrors =>
          /\ UNCHANGED <<stock_data_cache, cards, last_update_label>>
          /\ stErrCount' = stErrCount + Len(result_queue)
          /\ stDialog'.kind = "error"]_vars

\* an error outcome was applied in the stock app while records of an earlier
\* fetch were cached and shown
C5_Witness ==
  /\ app = "stock"
  /\ stHandled # <<>>
  /\ stHandled[Len(stHandled)][2] = "error"
  /\ stStatus = UpdateFailed
  /\ stDialog.kind = "error"
  /\ CacheGens # {}
  /\ CardGens # {}

\* the callbacks of worker w that Tk has not yet run
FxQueued(w) == {i \in 1..Len(afterQ) : afterQ[i].w = w}
\* the outcomes worker w has put on result_queue so far
StPut(w) == {i \in 1..Len(stEnqueued) : stEnqueued[i][1] = w}

\* C6: each run of a background worker delivers exactly one outcome to the UI
\* thread: the raw result as a success when the fetch returned, the
\* description of the fault as an error when it raised.
C6_ExactlyOneOutcome ==
  /\ \A w \in 1..MaxFetches :
       /\ fxW[w].pc \in {"except", "tail", "done"}
            => Cardinality(FxQueued(w)) + fxW[w].applied = 1
       /\ fxW[w].pc \in {"idle", "fetch"}
            => Cardinality(FxQueued(w)) + fxW[w].applied = 0
       /\ \A i \in FxQueued(w) :
            afterQ[i].kind = (IF fxW[w].res.kind = "raise" THEN "error" ELSE "data")
  /\ fxApplied.kind \in {"none", "success", "error"}
  /\ \A w \in 1..MaxFetches :
       /\ stW[w].pc = "done" => Cardinality(StPut(w)) = 1
       /\ stW[w].pc \in {"idle", "fetch"} => StPut(w) = {}

\* the busy flag is clear and the refresh button takes a press
FxIdle == ~is_loading /\ fxBtn = "normal"
StIdle == ~is_updating /\ stBtn = "normal"

\* C7: in both desktop apps every launched fetch is eventually followed by a
\* state in which the busy flag is False and the refresh button is enabled.
C7_BusyEventuallyCleared ==
  /\ \A w \in 1..MaxFetches : (fxW[w].pc = "fetch") ~> FxIdle
  /\ \A w \in 1..MaxFetches : (stW[w].pc = "fetch") ~> StIdle

\* C8: a step of a worker thread writes nothing but the result channel
\* (result_queue, the after queue): every other field of the app object is
\* left as it was.
C8_WorkerWritesChannelOnly ==
  [][thread' = "worker" =>
       UNCHANGED <<fxUi, watchlist, stUi, stAuto>>]_vars

\* <<worker, type>> of the outcomes of a queue, in order
Tags(q) == [i \in 1..Len(q) |-> <<q[i].w, q[i].type>>]

RowsOf(recs) == [i \in 1..Len(recs) |-> <<recs[i].cur, recs[i].buy, recs[i].sell>>]

\* Tk runs a data callback whose fetch result is a non-empty list
FxAppliesRecords ==
  /\ app = "fx"
  /\ afterQ # <<>>
  /\ Head(afterQ).kind = "data"
  /\ ~IsEmptyResult(FxData(fxW[Head(afterQ).w].res))
  /\ afterQ' = Tail(afterQ)

\* C10: after _update_ui_with_data with a non-empty list, exchange_data and
\* the rows of the table are exactly those records, in the order supplied.
C10_ShowsExactlyTheRecords ==
  [][FxAppliesRecords =>
       /\ exchange_data' = Some(fxW[Head(afterQ).w].res.data)
       /\ tree' = RowsOf(fxW[Head(afterQ).w].res.data)]_vars

\* a second list was applied over the rows of an earlier one
C10_Witness ==
  /\ app = "fx"
  /\ fxApplied.kind = "success"
  /\ fxApplied.w = 2
  /\ now = 2
  /\ Len(tree) = 1
  /\ exchange_data # None
  /\ tree = RowsOf(exchange_data.v)

\* a step of the dashboard that is a run of the script (the clock stands
\* still during a run; the other step of the dashboard is the passing of time)
WebRunStep == app = "web" /\ now' = now

\* the outcome the desktop app handled last was a failure
FxLastFailed ==
  \/ fxApplied.kind \in {"error", "NameError"}
  \/ fxApplied.kind = "success" /\ IsEmptyResult(fxApplied.payload)
StLastFailed == stHandled # <<>> /\ stHandled[Len(stHandled)][2] = "error"

\* the fetch of the refresh block of the last run of the dashboard stored nothing
WebRefreshFailed ==
  /\ webRun.refresh # "no fetch"
  /\ \A i \in 1..Len(webBanners) :
       webBanners[i].block = "refresh" => webBanners[i].kind # "success"

\* C11: no fetch is started as an automatic retry of a failed fetch: in the
\* desktop apps a worker launched after a failed fetch is launched by a user
\* action (the refresh button, the auto-update checkbox), never by a timer,
\* and a run of the dashboard whose fetch failed does not fetch again.
C11_NoAutomaticRetry ==
  [][/\ (app = "fx" /\ FxLastFailed /\ fxLaunched' # fxLaunched) => FxPressUpdate
     /\ (app = "stock" /\ StLastFailed /\ stLaunched' # stLaunched)
          => ManualUpdate \/ ToggleAutoUpdate
     /\ (WebRunStep /\ WebRefreshFailed') => webRun'.initial = "no fetch"]_vars

\* the currencies, in record order, of the records that have both values
FxWithBothValues(recs) ==
  LET both == SelectSeq(recs, LAMBDA r : r.buy # "" /\ r.sell # "")
  IN  [i \in 1..Len(both) |-> both[i].cur]
WebWithBothValues(rates_df) ==
  LET both == SelectSeq(rates_df, LAMBDA row : row.buyv # None /\ row.sellv # None)
  IN  [i \in 1..Len(both) |-> both[i].cur]

\* C12: the currency selector offers exactly the currencies of the stored
\* records that have both a buy and a sell value, in record order: the combo
\* box of ExchangeRateApp, and the selectbox of a dashboard run that rendered
\* the main area.
C12_SelectorHasBothValues ==
  /\ (app = "fx" /\ exchange_data # None) => combo = FxWithBothValues(exchange_data.v)
  /\ (app = "web" /\ rates_cache # None /\ webRun.initial = "no fetch")
       => webCurrencies = WebWithBothValues(rates_cache.v)

\* C13: watchlist changes only in a step of add_to_watchlist or of
\* remove_from_watchlist (launching a refresh, polling the queue, handling an
\* outcome, searching and the auto-update timer leave it as it is), and
\* add_to_watchlist with a code already in the watchlist leaves it unchanged.
C13_WatchlistOnlyAddRemove ==
  [][/\ watchlist' # watchlist =>
          \/ \E sel \in Codes : AddToWatchlist(sel)
          \/ \E code \in Codes : RemoveFromWatchlist(code)
     /\ \A sel \in watchlist : AddToWatchlist(sel) => watchlist' = watchlist]_vars

\* a code of the watchlist was selected and added again, after a fetch had
\* been launched and its outcome handled
C13_Witness ==
  /\ app = "stock"
  /\ stDialog.text = "already in the watchlist"
  /\ stDialog.detail \in watchlist
  /\ stLaunched >= 1
  /\ stHandled # <<>>

\* Tk runs a data callback that hands over the records the callback before
\* it handed over
FxReappliesRecords ==
  /\ FxAppliesRecords
  /\ fxApplied.kind = "success"
  /\ fxApplied.payload = FxData(fxW[Head(afterQ).w].res)

\* a poll that handles exactly one outcome, a success
PollsOneSuccess ==
  /\ app = "stock"
  /\ Len(result_queue) = 1
  /\ result_queue[1].type = "success"
  /\ result_queue' = <<>>

\* C14: applying the same success outcome a second time leaves the cached
\* records and what is displayed as the first application left them: in
\* ExchangeRateApp exchange_data, the table rows and the combo values stay
\* as they are; in StockMonitorApp on_update_complete run again on the
\* results a poll has just applied gives the cache and the cards of that poll.
C14_ReapplyChangesNothing ==
  [][/\ FxReappliesRecords => UNCHANGED <<exchange_data, tree, combo>>
     /\ PollsOneSuccess =>
          LET twice == OnUpdateComplete(StState', watchlist', result_queue[1].results)
          IN  twice.cache = stock_data_cache' /\ twice.cards = cards']_vars

\* two fetches in a row returned the same records and both were applied
C14_Witness ==
  /\ app = "fx"
  /\ fxApplied.kind = "success"
  /\ fxApplied.again
  /\ fxApplied.w = 2
  /\ exchange_data = fxApplied.payload
  /\ Len(tree) >= 1
  /\ tree = RowsOf(exchange_data.v)

\* C15: a run of the dashboard script attempts a fetch if and only if, when
\* it starts, there is no cache, or the last successful update is at least
\* 10 minutes old, or the run was caused by the manual-refresh button.
C15_FetchIffDue ==
  [][WebRunStep =>
       ((webRun'.refresh # "no fetch" \/ webRun'.initial # "no fetch")
          <=> \/ rates_cache = None
              \/ web_last_update # None /\ now - web_last_update.v >= RefreshMinutes
              \/ webRun'.pressed)]_vars

\* a run that found a cache younger than 10 minutes, was not caused by the
\* refresh button and fetched nothing
C15_Witness ==
  /\ app = "web"
  /\ rates_cache # None
  /\ web_last_update # None
  /\ now - web_last_update.v = TickMinutes
  /\ now - web_last_update.v < RefreshMinutes
  /\ webRun = [refresh |-> "no fetch", initial |-> "no fetch", pressed |-> FALSE]

\* a pass of the loop of play_game that read a guess outside [min, max]
GuessesOutOfRange ==
  /\ app = "game"
  /\ gamePc = "guess"
  /\ count' = count + 1
  /\ keyin'.v < min \/ keyin'.v > max

\* C16: a guess outside the prompted range [min, max] is reported inline,
\* leaves min, max and target unchanged and does not end the game: the
\* program prompts again with the same range.
C16_OutOfRangeGuessIsRejected ==
  [][GuessesOutOfRange =>
       /\ printed' = "enter a number within the range"
       /\ UNCHANGED <<min, max, target>>
       /\ gamePc' = "guess"]_vars

\* a guess above max was rejected after an earlier guess had narrowed the range
C16_Witness ==
  /\ app = "game"
  /\ gamePc = "guess"
  /\ printed = "enter a number within the range"
  /\ keyin # None
  /\ keyin.v > max
  /\ max < MaxNumber
  /\ count >= 2

\* C17: after a finished game the main loop ends (game over) exactly when the
\* answer to the continue prompt is 'n'; after any other answer it is back
\* at the top of the loop, whose only step starts a new game.
C17_EndsExactlyOnN ==
  [][app = "game" =>
       /\ gamePc = "again" =>
            /\ is_play_again' = "n" => gamePc' = "over"
            /\ is_play_again' # "n" => gamePc' = "main"
       /\ gamePc' = "over" => gamePc = "again" /\ is_play_again' = "n"
       /\ gamePc = "main" => gamePc' = "guess" /\ games' = games + 1]_vars

\* a second game was started after an answer other than 'n', and the program
\* ended when the player answered 'n' after it
C17_Witness ==
  /\ app = "game"
  /\ games = 2
  /\ gamePc = "over"
  /\ is_play_again = "n"
  /\ printed = "hit"

\* C18: in ExchangeRateApp is_loading is True in every state in which the
\* fetch of a worker thread is in flight.
C18_BusyWhileFetching ==
  (app = "fx" /\ FxInFlight # {}) => is_loading

\* C19: in StockMonitorApp every code that stock_data_cache holds a record
\* for is a member of watchlist.
C19_CacheWithinWatchlist ==
  app = "stock" => \A code \in Codes : stock_data_cache[code] # None => code \in watchlist

\* C20: in ExchangeRateApp, while a fetch is in flight the status label shows
\* the loading text and the refresh button is disabled.
C20_LoadingShownWhileFetching ==
  (app = "fx" /\ FxInFlight # {}) => fxStatus = LoadingText /\ fxBtn = "disabled"

\* C21: in StockMonitorApp at most one auto-update timer is pending, none is
\* pending while auto-update is disabled, and a step in which a timer fires
\* and a worker is launched starts from a state with auto-update enabled, a
\* non-empty watchlist and no fetch in flight.
C21_OneTimerWhileEnabled ==
  [][app = "stock" =>
       /\ Cardinality(timers') <= 1
       /\ ~auto_update_enabled' => timers' = {}
       /\ (trigger' = "timer" /\ stLaunched' # stLaunched)
            => auto_update_enabled /\ watchlist # {} /\ StInFlight = {} /\ ~is_updating]_vars

\* a timer fired and launched the second fetch, and set the next timer
C21_Witness ==
  /\ app = "stock"
  /\ trigger = "timer"
  /\ request = "launched"
  /\ stLaunched = 2
  /\ StInFlight = {2}
  /\ auto_update_enabled
  /\ Cardinality(timers) = 1

\* the place of a stock code in ascending code order
CodeRank(code) == CHOOSE i \in 1..Len(CodeOrder) : CodeOrder[i] = code

\* C22: the stock panel shows exactly one card per member of the watchlist, in
\* ascending code order, a data card when stock_data_cache has a record for
\* the code and a waiting card otherwise; the empty-state hint is shown if
\* and only if the watchlist is empty (and then nothing else is shown).
C22_OneCardPerMember ==
  app = "stock" =>
    /\ (\E i \in 1..Len(cards) : cards[i] = EmptyHint) <=> watchlist = {}
    /\ watchlist = {} => cards = <<EmptyHint>>
    /\ watchlist # {} =>
         /\ Len(cards) = Cardinality(watchlist)
         /\ \A i \in 1..Len(cards) :
              /\ cards[i].code \in watchlist
              /\ cards[i].data = stock_data_cache[cards[i].code]
         /\ \A i, j \in 1..Len(cards) :
              i < j => CodeRank(cards[i].code) < CodeRank(cards[j].code)

\* two stocks are watched; the panel was rebuilt by a poll that stored the
\* record of one of them only: a waiting card above a data card
C22_Witness ==
  /\ app = "stock"
  /\ watchlist = Codes
  /\ Len(cards) = 2
  /\ cards[1].data = None
  /\ cards[2].data # None
  /\ stHandled # <<>>

\* C23: in the dashboard rates_cache is None exactly when last_update is
\* None, a stored table is never empty, and a run that changes either of the
\* two stores a non-empty table together with the time of the run (so a
\* fetch without valid rows overwrites neither).
C23_CacheAndTimeTogether ==
  [][app = "web" =>
       /\ rates_cache' = None <=> web_last_update' = None
       /\ rates_cache' # None => rates_cache'.v # <<>>
       /\ <<rates_cache, web_last_update>>' # <<rates_cache, web_last_update>>
            => /\ rates_cache' # None
               /\ web_last_update' = Some(now')]_vars

\* a refresh of a stale cache fetched rows of which none was valid: the
\* warning was shown and the old table and its time were kept
C23_Witness ==
  /\ app = "web"
  /\ rates_cache # None
  /\ web_last_update # None
  /\ now - web_last_update.v >= RefreshMinutes
  /\ webRun.refresh = "list"
  /\ \E i \in 1..Len(webBanners) : webBanners[i].kind = "warning"

\* a scraped row that clean_rate_data is to keep, its fields trimmed: a
\* currency, no suspended marker, every non-empty rate numeric, a rate present
KeepsRow(rate) ==
  /\ Strip(rate.cur) # ""
  /\ ~HasSuspended(Strip(rate.buy)) /\ ~HasSuspended(Strip(rate.sell))
  /\ Strip(rate.buy) # "" => IsFloat(Strip(rate.buy))
  /\ Strip(rate.sell) # "" => IsFloat(Strip(rate.sell))
  /\ Strip(rate.buy) # "" \/ Strip(rate.sell) # ""

\* the row of the table for a kept row: an empty rate is the suspended marker
\* with a null value
RowKept(rate) ==
  [cur |-> Strip(rate.cur),
   buy |-> IF Strip(rate.buy) = "" THEN Suspended ELSE Strip(rate.buy),
   sell |-> IF Strip(rate.sell) = "" THEN Suspended ELSE Strip(rate.sell),
   buyv |-> IF Strip(rate.buy) = "" THEN None ELSE Some(FloatOf(Strip(rate.buy))),
   sellv |-> IF Strip(rate.sell) = "" THEN None ELSE Some(FloatOf(Strip(rate.sell)))]

\* C24: clean_rate_data returns, in input order, exactly the rows that have a
\* currency, no suspended marker in a rate field, only numeric non-empty rate
\* fields and at least one non-empty rate field; an empty rate field comes
\* out as the suspended marker with a null value; no rows in, no rows out.
C24_CleanKeepsValidRows ==
  cleanDf # None =>
    LET kept == SelectSeq(cleanRates, KeepsRow)
    IN  /\ cleanDf.v = [i \in 1..Len(kept) |-> RowKept(kept[i])]
        /\ cleanRates = <<>> => cleanDf.v = <<>>

\* of two rows the first was dropped and the second kept, with its empty buy
\* field output as the suspended marker
C24_Witness ==
  /\ app = "clean"
  /\ cleanDf # None
  /\ Len(cleanRates) = 2
  /\ ~KeepsRow(cleanRates[1])
  /\ Len(cleanDf.v) = 1
  /\ cleanDf.v[1].buy = Suspended
  /\ cleanDf.v[1].buyv = None
  /\ cleanDf.v[1].sellv # None

\* a step of _calculate_conversion that changed the amount entry or the result
CalcStep ==
  /\ app = "fx"
  /\ twd_entry' # twd_entry \/ result_label' # result_label

\* the amount entered is a number greater than 0, a currency is selected and
\* exchange_data has a record for it
CalcInputValid(text) ==
  /\ AmountOf(Strip(text)).kind = "num"
  /\ AmountOf(Strip(text)).v > 0
  /\ comboSel # ""
  /\ FindRateByCurrency(comboSel) # None

\* C25: _calculate_conversion changes the result display only when the amount
\* is a number greater than 0, a currency is selected and a rate record for it
\* exists; in every other case it shows a warning or an error and leaves the
\* result display and the rest of the app as they were.
C25_ConvertsOnlyValidInput ==
  [][CalcStep =>
       /\ result_label' # result_label => CalcInputValid(twd_entry')
       /\ ~CalcInputValid(twd_entry') =>
            /\ fxDialog'.kind \in {"warning", "error"}
            /\ UNCHANGED <<result_label, fxStarted, is_loading, exchange_data,
                           last_update, fxBtn, fxStatus, time_label, tree, combo,
                           comboSel, fxErrCount, clearTimers, fxW, fxLaunched,
                           afterQ>>]_vars

\* C26: in every state of play_game the target lies within the current range,
\* min <= target <= max.
C26_TargetWithinRange ==
  app = "game" => min <= target /\ target <= max

\* both ends have been moved by wrong guesses until only the target is left
C26_Witness ==
  /\ app = "game"
  /\ gamePc = "guess"
  /\ count >= 2
  /\ min > 1
  /\ max < MaxNumber
  /\ min = target
  /\ max = target

(***************************************************************************)
(* Scheduling: a fetch ends, a thread runs on, Tk runs the callbacks that   *)
(* are due and reschedules check_queue every 100 ms.                        *)
(***************************************************************************)
Fairness ==
  /\ WF_vars(\E w \in 1..MaxFetches : \E r \in FxOutcomes : FxFetchDone(w, r))
  /\ WF_vars(\E w \in 1..MaxFetches : FxLeaveExcept(w))
  /\ WF_vars(\E w \in 1..MaxFetches : FxFinally(w))
  /\ WF_vars(FxRunCallback)
  /\ WF_vars(\E w \in 1..MaxFetches :
               \E r \in StockOutcomes(stW[w].codes, w) : StockFetchDone(w, r))
  /\ WF_vars(CheckQueue /\ result_queue # <<>>)

FairSpec == Spec /\ Fairness

====
